---- MODULE Spec2Model ----
(***************************************************************************)
(* Model of build_ut.py, the build/test driver of the rialto-gstreamer     *)
(* unit tests.  One run of main() is a sequential process; every external  *)
(* command it starts through runcmd() is one step whose exit code is       *)
(* chosen by the environment.  `log' is the history of the commands that   *)
(* were invoked, in order, with the argument vector built by the script    *)
(* and the exit code that came back.                                       *)
(***************************************************************************)
EXTENDS Integers, Sequences, FiniteSets, TLC

VARIABLES args, suites, before, fs, f, xml, pc, idx, hasFailed, log, caught, covReturn

vars == <<args, suites, before, fs, f, xml, pc, idx, hasFailed, log, caught, covReturn>>

\* ---------------------------------------------------------------- bounds
\* largest number of entries of the suites dictionary that is explored
MaxSuites == 2

\* ------------------------------------------------------------- constants
resultOutput == "gtest_result"
valgrindOutput == "valgrind_report"
valgrindErrorCode == 101
valgrindIgnore == "rialto-gstreamer.supp"

\* Python's None
None == "<None>"

\* exit codes an external command may come back with
ExitCodes == {0, 1, 2, valgrindErrorCode}

\* keys and entries of the suites dictionary; the script itself has "gst" only
SuiteKeys == <<"gst", "aux", "ext">>
SuiteName == [gst |-> "GstRialtoUnitTests", aux |-> "AuxUnitTests", ext |-> "ExtUnitTests"]
SuitePath == [gst |-> "/tests/ut/", aux |-> "/tests/aux/", ext |-> "/tests/ext/"]

\* paths of the working directory the clean stage is about
includeDirs == "tests/third-party/include"
sourceFile == "tests/third-party/source/RialtoGStreamerEMEProtectionMetadata.cpp"
outputDefault == "build"
CleanPaths == {includeDirs, sourceFile, outputDefault, resultOutput \o ".log", valgrindOutput \o ".log"}

\* values of the command line options after argparse
FileOpts == {None, "", "out.log"}
XmlOpts == {None, "", "out.xml"}
FilterOpts == {None, "FooTest*"}
ArgSpace ==
  [output : {outputDefault}, file : FileOpts, xml : XmlOpts, googletestFilter : FilterOpts,
   listTests : BOOLEAN, clean : BOOLEAN, noBuild : BOOLEAN, noTest : BOOLEAN,
   valgrind : BOOLEAN, coverage : BOOLEAN, branch : {""}]

\* ------------------------------------------------------------ pure parts
runcmdNeverExits(rc) == TRUE

\* runcmd: TRUE when the status is returned, FALSE when sys.exit is called
runcmd(rc) == rc = 0 \/ rc = valgrindErrorCode

\* truth value Python gives the CompletedProcess object runcmd returns
Truthy(rc) == TRUE

rmTargetsNoLogs(outputDir) == {outputDir}

\* the paths the rm command of the clean stage is given
rmTargets(outputDir) == {outputDir, resultOutput \o ".log", valgrindOutput \o ".log"}

cleanCmd(outputDir) == <<"rm", "-rf", outputDir, resultOutput \o ".log", valgrindOutput \o ".log">>

afterCheckAndRemoveUncaught(raised) == IF raised THEN "raised" ELSE "rm"

\* where the run goes after checkAndRemoveFiles; an error inside it is caught
afterCheckAndRemove(raised) == "rm"

\* file the -f option opens (None: output is inherited)
openedFile(a) == IF a.file # None THEN (IF a.file = "" THEN resultOutput \o ".log" ELSE a.file) ELSE None

\* name of the xml result file
xmlName(a) == IF a.xml # None THEN (IF a.xml = "" THEN resultOutput \o ".xml" ELSE a.xml) ELSE None

testGateCoverageAnyway(a) ==
  IF a.noTest = FALSE THEN "runTests" ELSE IF a.coverage THEN "lcovBase" ELSE "done"

\* main: the test stage runs unless --noTest
testGate(a) == IF a.noTest = FALSE THEN "runTests" ELSE "done"

buildGateAlways(a) == "cmake"

buildGateInverted(a) == IF a.noBuild = TRUE THEN "cmake" ELSE testGate(a)

\* main: the build stage runs unless --noBuild
buildGate(a) == IF a.noBuild = FALSE THEN "cmake" ELSE testGate(a)

cmakeCmd(outputDir, coverage, branch) ==
  <<"cmake", "-B", outputDir, "-DCMAKE_BUILD_FLAG=UnitTests", "-DRIALTO_ENABLE_X_RAW=1", "-DBUILD_BRANCH=" \o branch>>
    \o (IF coverage THEN <<"-DCOVERAGE_ENABLED=1">> ELSE <<>>)

makeCmd(ss) == <<"make", "-jN">> \o [i \in 1..Len(ss) |-> SuiteName[ss[i]]]

AddValgrind(suite, outputToFile, outputToXml) ==
  <<"valgrind", "--leak-check=full", "--show-leak-kinds=all", "--track-origins=yes", "--verbose",
    "--error-exitcode=101">>
    \o (IF outputToXml THEN <<"--xml=yes", "--xml-file=" \o suite \o "_" \o valgrindOutput \o ".xml">>
        ELSE IF outputToFile THEN <<"--log-file=" \o suite \o "_" \o valgrindOutput \o ".log">>
        ELSE <<>>)
    \o <<"--suppressions=" \o valgrindIgnore>>

xmlFlagWithValgrind(key, xmlFile, valgrind) ==
  IF xmlFile # None THEN <<"--gtest_output=xml:" \o key \o "_" \o xmlFile>> ELSE <<>>

\* the structured-results flag of a test invocation
xmlFlag(key, xmlFile, valgrind) ==
  IF xmlFile # None /\ valgrind = FALSE THEN <<"--gtest_output=xml:" \o key \o "_" \o xmlFile>> ELSE <<>>

testCmd(key, doListTests, gtestFilter, resultsFile, xmlFile, valgrind) ==
  (IF valgrind = TRUE THEN AddValgrind(key, resultsFile # None, xmlFile # None) ELSE <<>>)
    \o <<"." \o SuitePath[key] \o SuiteName[key]>>
    \o (IF doListTests = TRUE THEN <<"--gtest_list_tests">>
        ELSE IF gtestFilter # None THEN <<"--gtest_filter=" \o gtestFilter>>
        ELSE <<>>)
    \o xmlFlag(key, xmlFile, valgrind)

\* hasFailed after a suite's status came back
failedAfter(failed, rc) ==
  IF rc = valgrindErrorCode THEN TRUE ELSE IF rc # 0 THEN TRUE ELSE failed

afterSuitesCoverageFirst(failed, coverage) ==
  IF coverage THEN "lcovBase" ELSE IF failed THEN "raised" ELSE "done"

\* end of runTests
afterSuites(failed, coverage) == IF failed THEN "raised" ELSE IF coverage THEN "lcovBase" ELSE "done"

lcovBaseCmd == <<"lcov", "-c", "-i", "-d", ".", "-o", "coverage_base.info", "--exclude", "/usr/*", "--exclude",
                 "*build/*", "--exclude", "*tests/*", "--filter", "brace,function,trivial">>
lcovTestCmd == <<"lcov", "-c", "-d", ".", "-o", "coverage_test.info", "--exclude", "/usr/*", "--exclude",
                 "*build/*", "--exclude", "*tests/*", "--filter", "brace,function,trivial">>
lcovCombineCmd == <<"lcov", "-a", "coverage_base.info", "-a", "coverage_test.info", "-o", "coverage.info",
                    "--filter", "brace,function,trivial">>
genHtmlCmd == <<"genhtml", "coverage.info", "--output-directory", "gh_pages/coverage_report", "--filter",
                "brace,function,trivial">>
genStatsCmd == <<"lcov", "--summary", "coverage.info", "--filter", "brace,function,trivial">>

\* ----------------------------------------------------------------- state
Entry(step, suite, cmd, rc) == [step |-> step, suite |-> suite, cmd |-> cmd, rc |-> rc]

\* state at the start of main, the options being parsed: the options come
\* from argSpace and the working directory holds one of the sets in dirs
InitFrom(argSpace, dirs) ==
  /\ args \in argSpace
  /\ \E n \in 1..MaxSuites : suites = SubSeq(SuiteKeys, 1, n)
  /\ before \in dirs
  /\ fs = before
  /\ f = None
  /\ xml = None
  /\ pc = IF args.clean = TRUE THEN "checkAndRemoveFiles" ELSE "open"
  /\ idx = 1
  /\ hasFailed = FALSE
  /\ log = <<>>
  /\ caught = FALSE
  /\ covReturn = None

\* every combination of the options, in a working directory that holds all
\* the paths the clean stage is about
Init == InitFrom(ArgSpace, {CleanPaths})

\* runs with --clean from every combination of existing paths; the options
\* that only shape the test command line are left at their defaults
CleanArgSpace ==
  {a \in ArgSpace : /\ a.clean
                    /\ a.file = None /\ a.xml = None /\ a.googletestFilter = None
                    /\ ~a.listTests /\ ~a.valgrind}

InitClean == InitFrom(CleanArgSpace, SUBSET CleanPaths)

\* one external command started through runcmd: the exit code comes from the
\* environment; an exit code runcmd does not accept ends the process
Run(step, suite, cmd, rc, next) ==
  /\ log' = Append(log, Entry(step, suite, cmd, rc))
  /\ pc' = IF runcmd(rc) THEN next ELSE "exited"

\* checkAndRemoveFiles: either removal may raise; the first error leaves the
\* try block and is printed
CheckAndRemoveFiles ==
  /\ pc = "checkAndRemoveFiles"
  /\ \E rmtreeFails \in BOOLEAN, removeFails \in BOOLEAN :
       LET e1 == includeDirs \in fs /\ rmtreeFails
           fs1 == IF includeDirs \in fs /\ ~rmtreeFails THEN fs \ {includeDirs} ELSE fs
           e2 == ~e1 /\ sourceFile \in fs1 /\ removeFails
           fs2 == IF ~e1 /\ sourceFile \in fs1 /\ ~removeFails THEN fs1 \ {sourceFile} ELSE fs1
       IN /\ fs' = fs2
          /\ caught' = (e1 \/ e2)
          /\ pc' = afterCheckAndRemove(e1 \/ e2)
  /\ UNCHANGED <<args, suites, before, f, xml, idx, hasFailed, log, covReturn>>

\* rm -rf of the output directory and the old logs: exit code 0 means all of
\* them are gone, any other code that some of them may be left
CleanRm ==
  /\ pc = "rm"
  /\ \E rc \in ExitCodes :
       /\ Run("rm", 0, cleanCmd(args.output), rc, "open")
       /\ IF rc = 0
            THEN fs' = fs \ rmTargets(args.output)
            ELSE \E left \in SUBSET (fs \cap rmTargets(args.output)) :
                   fs' = (fs \ rmTargets(args.output)) \cup left
  /\ UNCHANGED <<args, suites, before, f, xml, idx, hasFailed, caught, covReturn>>

\* the log file is opened for writing, the xml name is chosen, and main
\* goes on to the first stage that is not switched off
Open ==
  /\ pc = "open"
  /\ f' = openedFile(args)
  /\ fs' = IF openedFile(args) # None THEN fs \cup {openedFile(args)} ELSE fs
  /\ xml' = xmlName(args)
  /\ pc' = buildGate(args)
  /\ UNCHANGED <<args, suites, before, idx, hasFailed, log, caught, covReturn>>

Cmake ==
  /\ pc = "cmake"
  /\ \E rc \in ExitCodes :
       Run("cmake", 0, cmakeCmd(args.output, args.coverage, args.branch), rc, "make")
  /\ UNCHANGED <<args, suites, before, fs, f, xml, idx, hasFailed, caught, covReturn>>

Make ==
  /\ pc = "make"
  /\ \E rc \in ExitCodes : Run("make", 0, makeCmd(suites), rc, testGate(args))
  /\ UNCHANGED <<args, suites, before, fs, f, xml, idx, hasFailed, caught, covReturn>>

\* one iteration of the loop of runTests
RunSuite ==
  /\ pc = "runTests"
  /\ idx <= Len(suites)
  /\ \E rc \in ExitCodes :
       /\ Run("test", idx,
              testCmd(suites[idx], args.listTests, args.googletestFilter, f, xml, args.valgrind),
              rc, "runTests")
       /\ hasFailed' = IF runcmd(rc) THEN failedAfter(hasFailed, rc) ELSE hasFailed
       /\ idx' = IF runcmd(rc) THEN idx + 1 ELSE idx
  /\ UNCHANGED <<args, suites, before, fs, f, xml, caught, covReturn>>

\* after the loop of runTests
SuitesDone ==
  /\ pc = "runTests"
  /\ idx > Len(suites)
  /\ pc' = afterSuites(hasFailed, args.coverage)
  /\ UNCHANGED <<args, suites, before, fs, f, xml, idx, hasFailed, log, caught, covReturn>>

\* a capture or merge step of generateCoverageReport, followed by its
\* `if not status: return False'
CovStep(here, cmd, next) ==
  /\ pc = here
  /\ \E rc \in ExitCodes :
       /\ log' = Append(log, Entry(here, 0, cmd, rc))
       /\ IF ~runcmd(rc) THEN pc' = "exited" /\ covReturn' = covReturn
          ELSE IF ~Truthy(rc) THEN pc' = "done" /\ covReturn' = FALSE
          ELSE pc' = next /\ covReturn' = covReturn
  /\ UNCHANGED <<args, suites, before, fs, f, xml, idx, hasFailed, caught>>

LcovBase == CovStep("lcovBase", lcovBaseCmd, "lcovTest")
LcovTest == CovStep("lcovTest", lcovTestCmd, "lcovCombine")
LcovCombine == CovStep("lcovCombine", lcovCombineCmd, "genhtml")

GenHtml ==
  /\ pc = "genhtml"
  /\ \E rc \in ExitCodes : Run("genhtml", 0, genHtmlCmd, rc, "lcovSummary")
  /\ UNCHANGED <<args, suites, before, fs, f, xml, idx, hasFailed, caught, covReturn>>

\* the statistics file is opened, the summary is written to it, and the
\* report's result is `genHtmlStatus and genStatsStatus'
GenStats ==
  /\ pc = "lcovSummary"
  /\ \E rc \in ExitCodes :
       /\ Run("lcovSummary", 0, genStatsCmd, rc, "done")
       /\ covReturn' = IF runcmd(rc) THEN (Truthy(log[Len(log)].rc) /\ Truthy(rc)) ELSE covReturn
  /\ fs' = fs \cup {"build/coverage_statistics.txt"}
  /\ UNCHANGED <<args, suites, before, f, xml, idx, hasFailed, caught>>

Next ==
  \/ CheckAndRemoveFiles
  \/ CleanRm
  \/ Open
  \/ Cmake
  \/ Make
  \/ RunSuite
  \/ SuitesDone
  \/ LcovBase
  \/ LcovTest
  \/ LcovCombine
  \/ GenHtml
  \/ GenStats

Spec == Init /\ [][Next]_vars

SpecClean == InitClean /\ [][Next]_vars

TypeOK ==
  /\ args \in ArgSpace
  /\ pc \in {"checkAndRemoveFiles", "rm", "open", "cmake", "make", "runTests", "lcovBase", "lcovTest",
             "lcovCombine", "genhtml", "lcovSummary", "done", "exited", "raised"}
  /\ idx \in 1..(Len(suites) + 1)
  /\ hasFailed \in BOOLEAN
  /\ caught \in BOOLEAN

\* ------------------------------------------------------------ properties
LogIdx == 1..Len(log)
Terminal == pc \in {"done", "exited", "raised"}
BuildSteps == {"cmake", "make"}
CaptureSteps == {"lcovBase", "lcovTest", "lcovCombine"}
CovSteps == CaptureSteps \cup {"genhtml", "lcovSummary"}
Invoked(step) == \E i \in LogIdx : log[i].step = step
SuiteInvoked(s) == \E i \in LogIdx : log[i].step = "test" /\ log[i].suite = s
IsLast(i) == i = Len(log)

\* C1: a suite whose command exits with 101 is recorded as failed and does
\* not stop the loop (the next suite has been invoked or is the very next
\* command, and every later suite has been invoked when the run is over
\* unless a suite in between exited with a code runcmd does not accept); a
\* suite whose command exits with another non-zero code is the last command
\* of the run, which has exited.
C1_ValgrindCodeGoesOnOtherCodesHalt ==
  \A i \in LogIdx : log[i].step = "test" =>
    /\ log[i].rc = valgrindErrorCode =>
         /\ hasFailed
         /\ log[i].suite < Len(suites) =>
              \/ /\ i < Len(log)
                 /\ log[i + 1].step = "test"
                 /\ log[i + 1].suite = log[i].suite + 1
              \/ IsLast(i) /\ pc = "runTests" /\ idx = log[i].suite + 1
         /\ Terminal =>
              \A s \in (log[i].suite + 1)..Len(suites) :
                \/ SuiteInvoked(s)
                \/ \E k \in LogIdx : /\ k > i
                                     /\ log[k].step = "test"
                                     /\ log[k].suite < s
                                     /\ log[k].rc \notin {0, valgrindErrorCode}
    /\ log[i].rc \notin {0, valgrindErrorCode} =>
         /\ IsLast(i)
         /\ pc = "exited"
         /\ \A s \in (log[i].suite + 1)..Len(suites) : ~SuiteInvoked(s)

C1_Witness ==
  /\ Len(suites) >= 2
  /\ \E i \in LogIdx : /\ i < Len(log)
                       /\ log[i].step = "test" /\ log[i].rc = valgrindErrorCode
                       /\ log[i + 1].step = "test" /\ log[i + 1].rc = 1
  /\ hasFailed
  /\ pc = "exited"

\* C2: with --coverage, once a suite's command has come back with a non-zero
\* code no command of the coverage pipeline is ever invoked.
C2_NoCoverageAfterFailedSuite ==
  (args.coverage /\ \E i \in LogIdx : log[i].step = "test" /\ log[i].rc # 0) =>
    /\ \A i \in LogIdx : log[i].step \notin CovSteps
    /\ pc \notin CovSteps

C2_Witness ==
  /\ args.coverage
  /\ \E i \in LogIdx : log[i].step = "test" /\ log[i].rc = valgrindErrorCode
  /\ \A s \in 1..Len(suites) : SuiteInvoked(s)
  /\ pc = "raised"

\* C3: every non-zero exit code of cmake or make, 101 included, ends the run
\* at once: the command is the last one invoked and the process has exited.
C3_BuildFailureAborts ==
  \A i \in LogIdx :
    (log[i].step \in BuildSteps /\ log[i].rc # 0) => (IsLast(i) /\ pc = "exited")

\* C4: when lcov base, lcov test or lcov merge fails, no later step is
\* invoked and generateCoverageReport returns False to its caller, the
\* process being neither exited nor raised.
C4_CoverageFailureReturnsFalse ==
  \A i \in LogIdx :
    (log[i].step \in CaptureSteps /\ log[i].rc # 0) =>
      (IsLast(i) /\ pc = "done" /\ covReturn = FALSE)

\* C5 (as stated): no failure of a cleanup operation ends the run; after an
\* error in checkAndRemoveFiles or a non-zero exit code of rm the run is not
\* terminated at the clean stage.
C5_CleanFailureNeverPropagates ==
  (caught \/ (Invoked("rm") /\ log[1].rc # 0)) =>
    ~(pc \in {"exited", "raised"} /\ Len(log) <= 1)

\* C5 (amended): an error of a removal in checkAndRemoveFiles is caught and
\* the run goes on with the rm command; the rm command is not covered by the
\* handler: an exit code other than 0 and 101 ends the run there, with no
\* build or test command, and with code 0 or 101 the run goes on.
C5_CaughtInCheckAndRemoveOnly ==
  /\ caught => (Invoked("rm") \/ pc = "rm")
  /\ \A i \in LogIdx : log[i].step = "rm" =>
       IF log[i].rc \in {0, valgrindErrorCode}
         THEN ~(IsLast(i) /\ pc \in {"exited", "raised"})
         ELSE IsLast(i) /\ pc = "exited"

C5_Witness ==
  /\ caught
  /\ Invoked("rm")
  /\ Invoked("cmake")
  /\ Invoked("test")

StageRank(step) ==
  CASE step = "rm" -> 1
    [] step = "cmake" -> 2
    [] step = "make" -> 3
    [] step = "test" -> 4
    [] step = "lcovBase" -> 5
    [] step = "lcovTest" -> 6
    [] step = "lcovCombine" -> 7
    [] step = "genhtml" -> 8
    [] step = "lcovSummary" -> 9

NoFlags ==
  /\ ~args.clean /\ ~args.noBuild /\ ~args.noTest /\ ~args.valgrind /\ ~args.coverage /\ ~args.listTests
  /\ args.file = None /\ args.xml = None /\ args.googletestFilter = None

\* C7: the commands of a run are invoked in the order clean, cmake, make,
\* tests (suite by suite), coverage steps, none of them twice; without flags
\* a test binary is invoked only after cmake and then make have come back,
\* and a run that reaches the end of runTests has invoked cmake, make and
\* every suite.
C7_StagesInOrder ==
  /\ \A i \in LogIdx : \A j \in LogIdx : i < j =>
       \/ StageRank(log[i].step) < StageRank(log[j].step)
       \/ log[i].step = "test" /\ log[j].step = "test" /\ log[i].suite < log[j].suite
  /\ NoFlags =>
       /\ Invoked("test") =>
            /\ log[1].step = "cmake" /\ log[2].step = "make" /\ log[3].step = "test"
            /\ runcmd(log[1].rc) /\ runcmd(log[2].rc)
       /\ pc \in {"done", "raised"} =>
            /\ Invoked("cmake") /\ Invoked("make")
            /\ \A s \in 1..Len(suites) : SuiteInvoked(s)

C7_Witness ==
  /\ NoFlags
  /\ pc = "done"
  /\ Len(log) = 2 + Len(suites)
  /\ log[1].step = "cmake" /\ log[2].step = "make" /\ log[Len(log)].step = "test"

xmlPrefix == "--gtest_output=xml:"
HasXmlFlag(cmd) ==
  \E k \in 1..Len(cmd) : Len(cmd[k]) >= Len(xmlPrefix) /\ SubSeq(cmd[k], 1, Len(xmlPrefix)) = xmlPrefix

\* C8: with --valgrind and --xml, no test invocation carries the
\* --gtest_output=xml: flag.
C8_NoXmlFlagUnderValgrind ==
  (args.valgrind /\ args.xml # None) =>
    \A i \in LogIdx : log[i].step = "test" => ~HasXmlFlag(log[i].cmd)

C8_Witness ==
  /\ args.valgrind /\ args.xml = "" /\ args.googletestFilter # None /\ args.file # None /\ args.coverage
  /\ \A s \in 1..Len(suites) : SuiteInvoked(s)
  /\ \A i \in LogIdx : log[i].step = "test" => log[i].cmd[1] = "valgrind"

\* C9: with --noBuild neither cmake nor make is ever invoked.
C9_NoBuildNoBuildTool ==
  args.noBuild =>
    /\ \A i \in LogIdx : log[i].step \notin BuildSteps
    /\ pc \notin BuildSteps

C9_Witness ==
  /\ args.noBuild
  /\ args.clean
  /\ args.coverage
  /\ pc = "done"
  /\ Invoked("rm") /\ Invoked("test") /\ Invoked("lcovSummary")

HasToken(cmd, t) == \E k \in 1..Len(cmd) : cmd[k] = t

\* C10: a coverage command is invoked only with --coverage, without
\* --noTest and after every suite's command exited with code 0; with
\* --noTest and --coverage cmake is still given -DCOVERAGE_ENABLED=1.
C10_CoverageOnlyThroughTests ==
  /\ ((\E i \in LogIdx : log[i].step \in CovSteps) \/ pc \in CovSteps) =>
       /\ args.coverage
       /\ ~args.noTest
       /\ \A s \in 1..Len(suites) :
            \E i \in LogIdx : log[i].step = "test" /\ log[i].suite = s /\ log[i].rc = 0
  /\ (args.noTest /\ args.coverage) =>
       \A i \in LogIdx : log[i].step = "cmake" => HasToken(log[i].cmd, "-DCOVERAGE_ENABLED=1")

C10_Witness ==
  /\ args.noTest
  /\ args.coverage
  /\ pc = "done"
  /\ Invoked("make")
  /\ HasToken(log[1].cmd, "-DCOVERAGE_ENABLED=1")
====
